---- MODULE Spec2Model ----
(***************************************************************************)
(* Model of agents/models/manual.py: the manual interaction driver, the    *)
(* context formatter, the response builder and the ManualModel adapter.    *)
(*                                                                         *)
(* Python values.  An optional value is a tuple of length <= 1: PyNone is  *)
(* None and Str(s) is the string s.  An object is a record of its class    *)
(* name and its attribute dictionary; an attribute the object does not     *)
(* have is not in the dictionary's domain.  Strings are TLA+ strings and   *)
(* f-string formatting is concatenation.                                   *)
(***************************************************************************)
EXTENDS Naturals, Sequences, FiniteSets

\* ------------------------------------------------------------ bounds
NCalls == 2
MaxTools == 2
MaxHandoffs == 1

Calls == 1..NCalls

\* ------------------------------------------------------ Python values
PyNone == <<>>
Str(s) == <<s>>

\* bool(v) of an optional string
Truthy(v) == v # PyNone /\ v[1] # ""

\* str(v) as an f-string renders it
PyStr(v) == IF v = PyNone THEN "None" ELSE v[1]

\* getattr(obj, attr, default)
GetAttr(obj, attr, default) ==
    IF attr \in DOMAIN obj.attrs THEN obj.attrs[attr] ELSE default

HasAttr(obj, attr) == attr \in DOMAIN obj.attrs

\* ------------------------------------------------------------ constants
_RESPONSE_ID == "manual-response"
_MESSAGE_ID == "manual-message"

HeaderLine == "=== Manual model interaction ==="
SysHeaderLine == "System instructions:"
SysNoneLine == "System instructions: <none>"
ItemsLine == "Conversation items:"
PromptLine == "Prompt configuration:"
ToolsLine == "Available tools:"
ToolsNoneLine == "Available tools: none"
HandoffsLine == "Available handoffs:"
HandoffsNoneLine == "Available handoffs: none"
TrailerLine == "Provide the next assistant message."

\* The grave accent U+0060 that quotes a handoff's tool name; a TLA+ string
\* cannot hold that character, so this token stands for it.
BQ == "<U+0060>"

\* ---------------------------------------------------- context formatter
\* fault variant of _tool_name: no fallback to the class name
_tool_name_no_fallback(tool) == PyStr(GetAttr(tool, "name", PyNone))

_tool_name(tool) == PyStr(GetAttr(tool, "name", Str(tool.cls)))

\* fault variant of _tool_description: only the description field is read
_tool_description_first_only(tool) == GetAttr(tool, "description", PyNone)

\* _tool_description: a or b evaluates b when a is falsy
_tool_description(tool) ==
    LET first == GetAttr(tool, "description", PyNone)
    IN  IF Truthy(first) THEN first ELSE GetAttr(tool, "tool_description", PyNone)

\* one iteration of the loop of _format_tools
FormatTool(tool) ==
    LET name == _tool_name(tool)
        description == _tool_description(tool)
    IN  IF Truthy(description)
        THEN "  - " \o name \o ": " \o PyStr(description)
        ELSE "  - " \o name

\* fault variant of _format_tools: the lines come out in reverse order
_format_tools_reversed(tools) ==
    [i \in 1..Len(tools) |-> FormatTool(tools[Len(tools) + 1 - i])]

_format_tools(tools) == [i \in 1..Len(tools) |-> FormatTool(tools[i])]

\* the attributes _format_handoffs reads without a default
HandoffAttrs == {"tool_description", "agent_name", "tool_name"}

\* handoff.<attr> raises AttributeError when the attribute is missing
HandoffRaises(handoff) == \E a \in HandoffAttrs : ~HasAttr(handoff, a)

\* one iteration of the loop of _format_handoffs (no attribute missing)
FormatHandoff(handoff) ==
    LET description == handoff.attrs["tool_description"]
        base == "  - " \o PyStr(handoff.attrs["agent_name"]) \o " via " \o BQ
                       \o PyStr(handoff.attrs["tool_name"]) \o BQ
    IN  IF Truthy(description)
        THEN base \o ": " \o PyStr(description)
        ELSE base

\* _format_handoffs: the list is built before any of its lines is printed,
\* so one bad handoff loses every line
_format_handoffs(handoffs) ==
    IF \E i \in 1..Len(handoffs) : HandoffRaises(handoffs[i])
    THEN [exc |-> Str("AttributeError"), lines |-> <<>>]
    ELSE [exc |-> PyNone,
          lines |-> [i \in 1..Len(handoffs) |-> FormatHandoff(handoffs[i])]]

\* ------------------------------------------------- structured dumps
\* repr of a str
Repr(s) == "'" \o s \o "'"

RECURSIVE JoinFrom(_, _)
\* ", ".join(parts[i:])
JoinFrom(parts, i) ==
    IF i > Len(parts) THEN ""
    ELSE IF i = Len(parts) THEN parts[i]
    ELSE parts[i] \o ", " \o JoinFrom(parts, i + 1)

\* pformat(d, sort_dicts=False) of a dict of strings, a sequence of
\* <<key, value>> pairs in insertion order (short enough for one line)
PformatDict(d) ==
    "{" \o JoinFrom([i \in 1..Len(d) |-> Repr(d[i][1]) \o ": " \o Repr(d[i][2])], 1)
        \o "}"

\* pformat(items, sort_dicts=False) of a list of such dicts
PformatList(items) ==
    "[" \o JoinFrom([i \in 1..Len(items) |-> PformatDict(items[i])], 1) \o "]"

\* ItemHelpers.input_to_new_input_list: a string becomes one user item, a
\* sequence of items is copied
input_to_new_input_list(input) ==
    IF input.kind = "str"
    THEN << << <<"content", input.v>>, <<"role", "user">> >> >>
    ELSE input.v

\* ---------------------------------------------------- interaction driver
\* fault variant of lines 84-88: "if system_instructions is not None"
SystemSectionNoneOnly(system_instructions) ==
    IF system_instructions # PyNone
    THEN <<SysHeaderLine, system_instructions[1]>>
    ELSE <<SysNoneLine>>

\* lines 84-88: "if system_instructions" is false for None and for ""
SystemSection(system_instructions) ==
    IF Truthy(system_instructions)
    THEN <<SysHeaderLine, system_instructions[1]>>
    ELSE <<SysNoneLine>>

\* lines 90-91
ItemsSection(input) == <<ItemsLine, PformatList(input_to_new_input_list(input))>>

\* lines 93-95
PromptSection(prompt) ==
    IF prompt # PyNone THEN <<PromptLine, PformatDict(prompt[1])>> ELSE <<>>

\* lines 97-102
ToolsSection(tools) ==
    IF Len(tools) > 0
    THEN <<ToolsLine>> \o _format_tools(tools)
    ELSE <<ToolsNoneLine>>

\* lines 104-109: the header is printed, then _format_handoffs runs
HandoffsSection(handoffs) ==
    IF Len(handoffs) > 0
    THEN LET f == _format_handoffs(handoffs)
         IN  [exc |-> f.exc, lines |-> <<HandoffsLine>> \o f.lines]
    ELSE [exc |-> PyNone, lines |-> <<HandoffsNoneLine>>]

\* The lines manual_prompt_interaction prints, in order, and the exception
\* that ends it early, if any (lines 83-111).
Transcript(a) ==
    LET h == HandoffsSection(a.handoffs)
        upto == <<HeaderLine>> \o SystemSection(a.system_instructions)
                    \o ItemsSection(a.input) \o PromptSection(a.prompt)
                    \o ToolsSection(a.tools) \o h.lines
    IN  IF h.exc # PyNone
        THEN [exc |-> h.exc, lines |-> upto]
        ELSE [exc |-> PyNone, lines |-> upto \o <<TrailerLine>>]

\* ------------------------------------------------------ response builder
\* text.strip() on the reply texts of the model
StripText(text) == IF text = " padded reply " THEN "padded reply" ELSE text

\* fault variant of _build_output_message: the text is stripped
_build_output_message_stripped(text) ==
    [id |-> _MESSAGE_ID,
     content |-> <<[text |-> StripText(text), type |-> "output_text",
                    annotations |-> <<>>]>>,
     role |-> "assistant", status |-> "completed", type |-> "message"]

_build_output_message(text) ==
    [id |-> _MESSAGE_ID,
     content |-> <<[text |-> text, type |-> "output_text", annotations |-> <<>>]>>,
     role |-> "assistant", status |-> "completed", type |-> "message"]

\* Usage(): every counter defaults to zero
Usage ==
    [requests |-> 0, input_tokens |-> 0, output_tokens |-> 0, total_tokens |-> 0,
     input_tokens_details |-> [cached_tokens |-> 0],
     output_tokens_details |-> [reasoning_tokens |-> 0]]

_usage_to_response_usage(usage) ==
    [input_tokens |-> usage.input_tokens,
     output_tokens |-> usage.output_tokens,
     total_tokens |-> usage.total_tokens,
     input_tokens_details |->
         [cached_tokens |-> usage.input_tokens_details.cached_tokens],
     output_tokens_details |->
         [reasoning_tokens |-> usage.output_tokens_details.reasoning_tokens]]

_build_completed_event(message, usage) ==
    [type |-> "response.completed",
     sequence_number |-> 0,
     response |-> [id |-> _RESPONSE_ID, created_at |-> 0, model |-> "manual",
                   object |-> "response", output |-> <<message>>,
                   tool_choice |-> "none", tools |-> <<>>, top_p |-> PyNone,
                   usage |-> _usage_to_response_usage(usage),
                   parallel_tool_calls |-> FALSE]]

\* lines 201-203: what get_response returns for the reply text
ModelResponse(response_text) ==
    [output |-> <<_build_output_message(response_text)>>,
     usage |-> Usage,
     response_id |-> _RESPONSE_ID]

\* fault variant of lines 231-233: a text delta event precedes the completed event
StreamEventsWithDelta(response_text) ==
    <<[type |-> "response.output_text.delta", sequence_number |-> 0,
       delta |-> response_text],
      _build_completed_event(_build_output_message(response_text), Usage)>>

\* lines 231-233: the events stream_response yields for the reply text
StreamEvents(response_text) ==
    <<_build_completed_event(_build_output_message(response_text), Usage)>>

\* ------------------------------------------------------------- inputs
\* the tool of the tests; a hosted tool with a name and no description; an
\* object with neither; a tool whose description is empty and that has a
\* tool_description; a tool with a tool_description only; a tool with both
ToolObjects ==
    { [cls |-> "FunctionTool",
       attrs |-> [name |-> Str("test_tool"), description |-> Str("A simple helper.")]],
      [cls |-> "FileSearchTool", attrs |-> [name |-> Str("file_search")]],
      [cls |-> "CustomTool", attrs |-> <<>>],
      [cls |-> "LegacyTool",
       attrs |-> [name |-> Str("legacy"), description |-> Str(""),
                  tool_description |-> Str("Alt text.")]],
      [cls |-> "AltOnlyTool",
       attrs |-> [name |-> Str("alt"), tool_description |-> Str("Only alt.")]],
      [cls |-> "DualTool",
       attrs |-> [name |-> Str("dual"), description |-> Str("First."),
                  tool_description |-> Str("Second.")]] }

\* the handoff of the tests; one with an empty description; one without
\* the tool_description attribute; one without the agent_name attribute
HandoffObjects ==
    { [cls |-> "Handoff",
       attrs |-> [tool_name |-> Str("transfer_to_helper"),
                  tool_description |-> Str("Transfer to helper agent."),
                  agent_name |-> Str("Helper")]],
      [cls |-> "Handoff",
       attrs |-> [tool_name |-> Str("transfer_to_quiet"),
                  tool_description |-> Str(""),
                  agent_name |-> Str("Quiet")]],
      [cls |-> "PartialHandoff",
       attrs |-> [tool_name |-> Str("transfer_to_partial"),
                  agent_name |-> Str("Partial")]],
      [cls |-> "NamelessHandoff",
       attrs |-> [tool_name |-> Str("transfer_to_nameless"),
                  tool_description |-> Str("No agent name.")]] }

SeqUpTo(S, n) == UNION {[1..k -> S] : k \in 0..n}

SystemInstructions == {PyNone, Str(""), Str("Be concise.")}

Inputs ==
    { [kind |-> "str", v |-> "Hello"],
      [kind |-> "list", v |-> << << <<"role", "user">>, <<"content", "Ping">> >> >>] }

Prompts == {PyNone, << << <<"id", "pmpt_1">> >> >>}

Ops == {"get_response", "stream_response"}

\* every combination of arguments, for the formatter and the transcript
FmtArgs ==
    [op : Ops, system_instructions : SystemInstructions, input : Inputs,
     prompt : Prompts, tools : SeqUpTo(ToolObjects, MaxTools),
     handoffs : SeqUpTo(HandoffObjects, MaxHandoffs)]

TestTool == CHOOSE t \in ToolObjects : t.cls = "FunctionTool"
TestHandoff == CHOOSE h \in HandoffObjects : h.attrs = [tool_name |-> Str("transfer_to_helper"),
                  tool_description |-> Str("Transfer to helper agent."),
                  agent_name |-> Str("Helper")]

\* the first call of the tests, as either operation
ScenarioArgs ==
    [op : Ops, system_instructions : {Str("Be concise.")},
     input : {[kind |-> "str", v |-> "Hello"]}, prompt : {PyNone},
     tools : {<<TestTool>>}, handoffs : {<<TestHandoff>>}]

NoArgs ==
    [op |-> "", system_instructions |-> PyNone, input |-> [kind |-> "str", v |-> ""],
     prompt |-> PyNone, tools |-> <<>>, handoffs |-> <<>>]

ReplyTexts == {"", "Manual reply", " padded reply "}

ProviderErrors == {"RuntimeError"}

\* -------------------------------------------------------------- state
VARIABLES
    pc,             \* per call: idle, created, awaiting, yielded, done, exhausted, failed
    args,           \* per call: the arguments it was made with
    response_text,  \* per call: the local response_text, once the await returned
    response,       \* per call: what get_response returned, if it did
    yielded,        \* per call: the events stream_response has yielded
    error,          \* per call: the exception that reached the caller, if any
    log             \* the calls made to print_fn and to the reply provider, and
                    \* the provider's outcomes, in order (each tagged with its call)

vars == <<pc, args, response_text, response, yielded, error, log>>

PrintEv(c, line) == [ev |-> "print", call |-> c, val |-> line]
InvokeEv(c) == [ev |-> "invoke", call |-> c, val |-> ""]
ReplyEv(c, text) == [ev |-> "reply", call |-> c, val |-> text]
RaiseEv(c, e) == [ev |-> "raise", call |-> c, val |-> e]

Init ==
    /\ pc = [c \in Calls |-> "idle"]
    /\ args = [c \in Calls |-> NoArgs]
    /\ response_text = [c \in Calls |-> PyNone]
    /\ response = [c \in Calls |-> <<>>]
    /\ yielded = [c \in Calls |-> <<>>]
    /\ error = [c \in Calls |-> PyNone]
    /\ log = <<>>

\* fault variant of manual_prompt_interaction: the provider is invoked before
\* the trailer is printed
manual_prompt_interaction_provider_first(c, a) ==
    LET t == Transcript(a)
    IN  IF t.exc = PyNone
        THEN [i \in 1..(Len(t.lines) - 1) |-> PrintEv(c, t.lines[i])]
                \o <<InvokeEv(c), PrintEv(c, t.lines[Len(t.lines)])>>
        ELSE [i \in 1..Len(t.lines) |-> PrintEv(c, t.lines[i])]

\* manual_prompt_interaction for call c up to its await: every line goes to
\* print_fn, then line 113 picks the provider (the injected one, else the
\* reader of standard input; both are zero-argument awaitables whose outcome
\* the environment decides) and line 114 invokes it, unless an exception
\* ended the function first
manual_prompt_interaction(c, a) ==
    LET t == Transcript(a)
    IN  [i \in 1..Len(t.lines) |-> PrintEv(c, t.lines[i])]
            \o (IF t.exc = PyNone THEN <<InvokeEv(c)>> ELSE <<>>)

\* fault variant of line 114: the first reply any call received is reused
ReceivedTextCached(c, text) ==
    IF \E d \in Calls : response_text[d] # PyNone
    THEN response_text[CHOOSE d \in Calls : response_text[d] # PyNone][1]
    ELSE text

\* "return await provider()": the interaction returns the provider's text
ReceivedText(c, text) == text

\* fault variant of line 114: the reply is echoed through print_fn
ResumeEventsEcho(c, text) == <<ReplyEv(c, text), PrintEv(c, "Received: " \o text)>>

\* what a call adds to the log when its await returns: nothing is printed
\* after line 114
ResumeEvents(c, text) == <<ReplyEv(c, text)>>

\* A caller calls get_response or stream_response with arguments drawn from
\* choices: a coroutine or an async generator is created and nothing of its
\* body has run.
Call(c, choices) ==
    /\ pc[c] = "idle"
    /\ pc' = [pc EXCEPT ![c] = "created"]
    /\ \E a \in choices : args' = [args EXCEPT ![c] = a]
    /\ UNCHANGED <<response_text, response, yielded, error, log>>

\* The body runs from its first line to its only await (lines 191/221 into
\* 81-114): the transcript is printed and the provider invoked, or an
\* exception ends the call.  print_fn is called, never awaited, so on a
\* cooperative scheduler no other task runs in between: one step.
Start(c) ==
    /\ pc[c] = "created"
    /\ LET t == Transcript(args[c])
       IN  /\ log' = log \o manual_prompt_interaction(c, args[c])
           /\ pc' = [pc EXCEPT ![c] = IF t.exc = PyNone THEN "awaiting" ELSE "failed"]
           /\ error' = [error EXCEPT ![c] = t.exc]
    /\ UNCHANGED <<args, response_text, response, yielded>>

\* The provider returns text: get_response builds and returns its result
\* (lines 201-203), stream_response yields its first event (lines 231-233).
ProviderReturn(c, text) ==
    /\ pc[c] = "awaiting"
    /\ log' = log \o ResumeEvents(c, text)
    /\ LET got == ReceivedText(c, text)
       IN  /\ response_text' = [response_text EXCEPT ![c] = Str(got)]
           /\ IF args[c].op = "get_response"
              THEN /\ response' = [response EXCEPT ![c] = <<ModelResponse(got)>>]
                   /\ pc' = [pc EXCEPT ![c] = "done"]
                   /\ UNCHANGED yielded
              ELSE /\ yielded' = [yielded EXCEPT ![c] = <<StreamEvents(got)[1]>>]
                   /\ pc' = [pc EXCEPT ![c] = "yielded"]
                   /\ UNCHANGED response
    /\ UNCHANGED <<args, error>>

\* fault variant of the await: a failed provider is invoked once more
ProviderFailureRetry(c, e) ==
    /\ pc[c] = "awaiting"
    /\ Len(SelectSeq(log, LAMBDA x : x.call = c /\ x.ev = "invoke")) < 2
    /\ log' = log \o <<RaiseEv(c, e), InvokeEv(c)>>
    /\ UNCHANGED <<pc, args, response_text, response, yielded, error>>

\* The await raises e: no handler surrounds it in manual_prompt_interaction,
\* get_response or stream_response, so e leaves the call.
ProviderFailure(c, e) ==
    /\ pc[c] = "awaiting"
    /\ log' = log \o <<RaiseEv(c, e)>>
    /\ pc' = [pc EXCEPT ![c] = "failed"]
    /\ error' = [error EXCEPT ![c] = Str(e)]
    /\ UNCHANGED <<args, response_text, response, yielded>>

\* the provider raises an error of its own
ProviderRaise(c) == \E e \in ProviderErrors : ProviderFailure(c, e)

\* the awaiting task is cancelled: CancelledError is raised at the await
ProviderCancel(c) == ProviderFailure(c, "CancelledError")

\* The consumer asks the generator for its next event after one was
\* yielded: the body resumes after the yield of line 233, its last
\* statement, and ends (StopAsyncIteration).
StreamNext(c) ==
    /\ pc[c] = "yielded"
    /\ pc' = [pc EXCEPT ![c] = "exhausted"]
    /\ UNCHANGED <<args, response_text, response, yielded, error, log>>

Step(c) ==
    \/ Start(c)
    \/ \E text \in ReplyTexts : ProviderReturn(c, text)
    \/ ProviderRaise(c)
    \/ ProviderCancel(c)
    \/ StreamNext(c)

\* any number of calls, each the first call of the tests
Next ==
    \/ \E c \in Calls : Call(c, ScenarioArgs)
    \/ \E c \in Calls : Step(c)

Spec == Init /\ [][Next]_vars

\* one call, with every combination of arguments
NextFmt ==
    \/ Call(1, FmtArgs)
    \/ Step(1)

SpecFmt == Init /\ [][NextFmt]_vars

\* ------------------------------------------------ reading the log
Started(c) == pc[c] \notin {"idle", "created"}

\* the lines call c has passed to print_fn, in order
PrintsOf(c) ==
    LET e == SelectSeq(log, LAMBDA x : x.call = c /\ x.ev = "print")
    IN  [i \in 1..Len(e) |-> e[i].val]

Count(c, kind) == Len(SelectSeq(log, LAMBDA x : x.call = c /\ x.ev = kind))

\* the positions of a line in a sequence of lines
Positions(P, line) == {i \in 1..Len(P) : P[i] = line}

\* the position of the only occurrence of a line, 0 if it has none or several
Pos(P, line) ==
    IF Cardinality(Positions(P, line)) = 1
    THEN CHOOSE i \in Positions(P, line) : TRUE
    ELSE 0

\* the text the provider returned to call c (it has returned)
ReplyOf(c) == SelectSeq(log, LAMBDA x : x.call = c /\ x.ev = "reply")[1].val

WellFormed(handoff) == DOMAIN handoff.attrs = {"tool_name", "tool_description", "agent_name"}

\* ------------------------------------------------------------- claims

\* C1: for every reply text T the provider returns (the empty string and
\* padded text included), get_response returns one result with exactly one
\* output message, that message has exactly one content segment, its text
\* is T unchanged, and every usage counter of the result is 0.
C1_GetResponseVerbatim ==
    \A c \in Calls :
        (args[c].op = "get_response" /\ Count(c, "reply") > 0) =>
            /\ Len(response[c]) = 1
            /\ LET r == response[c][1]
               IN  /\ Len(r.output) = 1
                   /\ Len(r.output[1].content) = 1
                   /\ r.output[1].content[1].text = ReplyOf(c)
                   /\ r.usage.input_tokens = 0
                   /\ r.usage.output_tokens = 0
                   /\ r.usage.total_tokens = 0
                   /\ r.usage.input_tokens_details.cached_tokens = 0
                   /\ r.usage.output_tokens_details.reasoning_tokens = 0
                   /\ r.usage.requests = 0

C1_Witness ==
    \E c, d \in Calls :
        /\ args[c].op = "get_response" /\ args[d].op = "get_response"
        /\ pc[c] = "done" /\ pc[d] = "done"
        /\ Count(c, "reply") = 1 /\ Count(d, "reply") = 1
        /\ ReplyOf(c) = "" /\ ReplyOf(d) = " padded reply "
        /\ response[d][1].output[1].content[1].text = " padded reply "

\* C2: for every reply text T, iterating stream_response to exhaustion
\* yields exactly one event and then the stream ends: at no time has the
\* stream yielded more than one event, every event it has yielded is the
\* completed event with sequence number 0 whose response has exactly one
\* output message with content text T, and an exhausted stream has yielded
\* exactly one.
C2_StreamOneCompletedEvent ==
    \A c \in Calls :
        args[c].op = "stream_response" =>
            /\ Len(yielded[c]) <= 1
            /\ \A i \in 1..Len(yielded[c]) :
                  /\ yielded[c][i].type = "response.completed"
                  /\ yielded[c][i].sequence_number = 0
                  /\ Len(yielded[c][i].response.output) = 1
                  /\ Len(yielded[c][i].response.output[1].content) = 1
                  /\ yielded[c][i].response.output[1].content[1].text = ReplyOf(c)
            /\ (Count(c, "reply") > 0 => Len(yielded[c]) = 1)
            /\ (pc[c] = "exhausted" => Len(yielded[c]) = 1)
            /\ (Count(c, "reply") = 0 => pc[c] \notin {"yielded", "exhausted"})

C2_Witness ==
    \E c \in Calls :
        /\ args[c].op = "stream_response"
        /\ pc[c] = "exhausted"
        /\ ReplyOf(c) = " padded reply "
        /\ Len(yielded[c]) = 1

\* the position in the log of call c's provider invocation, 0 if none
InvokeAt(c) ==
    IF \E i \in 1..Len(log) : log[i].call = c /\ log[i].ev = "invoke"
    THEN CHOOSE i \in 1..Len(log) : log[i].call = c /\ log[i].ev = "invoke"
    ELSE 0

\* C3: the calls to print_fn come in one section order: the header is the
\* first printed line, then the system-instructions section, then
\* "Conversation items:" and its dump, then "Prompt configuration:" if and
\* only if a prompt configuration is present, then the tools section, then
\* the handoffs section; when the interaction reaches the provider the
\* trailer is the last printed line, the provider is invoked right after
\* it, and nothing is printed after the provider is invoked.
C3_SectionOrder ==
    \A c \in Calls :
        Started(c) =>
            LET P == PrintsOf(c)
                sys == IF Pos(P, SysNoneLine) # 0 THEN Pos(P, SysNoneLine)
                       ELSE Pos(P, SysHeaderLine)
                items == Pos(P, ItemsLine)
                prompt == Pos(P, PromptLine)
                tools == IF Pos(P, ToolsNoneLine) # 0 THEN Pos(P, ToolsNoneLine)
                         ELSE Pos(P, ToolsLine)
                handoffs == IF Pos(P, HandoffsNoneLine) # 0 THEN Pos(P, HandoffsNoneLine)
                            ELSE Pos(P, HandoffsLine)
                inv == InvokeAt(c)
                trailer == Pos(P, TrailerLine)
            IN  /\ P[1] = HeaderLine
                /\ Pos(P, HeaderLine) = 1
                /\ sys = 2
                /\ sys < items
                /\ items + 1 < tools
                /\ (prompt # 0) = (args[c].prompt # PyNone)
                /\ (prompt # 0 => items + 1 < prompt /\ prompt + 1 < tools)
                /\ tools < handoffs
                /\ (inv # 0 =>
                      /\ handoffs < trailer
                      /\ trailer = Len(P)
                      /\ log[inv - 1] = PrintEv(c, TrailerLine)
                      /\ \A j \in inv..Len(log) :
                            ~(log[j].call = c /\ log[j].ev = "print"))
                /\ (inv = 0 => trailer = 0)
                /\ (error[c] = PyNone => inv # 0)

C3_Witness ==
    \E c \in Calls :
        /\ args[c].prompt # PyNone
        /\ Len(args[c].tools) = MaxTools
        /\ Len(args[c].handoffs) > 0
        /\ pc[c] = "done"
        /\ PrintsOf(c)[Len(PrintsOf(c))] = TrailerLine
        /\ Pos(PrintsOf(c), PromptLine) > 0

\* C4: when the reply provider raises or the call is cancelled, that same
\* failure reaches the caller, the provider is not invoked a second time
\* for the call, and the call returns no response and yields no event.
C4_ProviderFailurePropagates ==
    \A c \in Calls :
        /\ Count(c, "invoke") <= 1
        /\ \A i \in 1..Len(log) :
              (log[i].call = c /\ log[i].ev = "raise") =>
                  /\ error[c] = Str(log[i].val)
                  /\ pc[c] = "failed"
                  /\ response[c] = <<>>
                  /\ yielded[c] = <<>>
                  /\ response_text[c] = PyNone
                  /\ Count(c, "reply") = 0
                  /\ Count(c, "raise") = 1

C4_Witness ==
    \E c, d \in Calls :
        /\ args[c].op = "get_response" /\ args[d].op = "stream_response"
        /\ error[c] = Str("RuntimeError") /\ error[d] = Str("CancelledError")
        /\ Count(c, "raise") = 1 /\ Count(d, "raise") = 1

\* C5: in any interleaving of calls on one adapter, each call that has run
\* printed its own complete transcript and made its own single invocation
\* of the provider (as many header lines and provider invocations as calls)
\* and the text a call returns is the text its own invocation returned.
C5_CallsIndependent ==
    LET started == {c \in Calls : Started(c)}
        headers == SelectSeq(log, LAMBDA x : x.ev = "print" /\ x.val = HeaderLine)
        invokes == SelectSeq(log, LAMBDA x : x.ev = "invoke")
    IN  /\ Len(headers) = Cardinality(started)
        /\ Len(invokes) = Cardinality(started)
        /\ \A c \in started :
              LET P == PrintsOf(c)
                  replies == Count(c, "reply")
              IN  /\ Count(c, "invoke") = 1
                  /\ Positions(P, HeaderLine) = {1}
                  /\ Positions(P, TrailerLine) = {Len(P)}
                  /\ replies <= 1
                  /\ (response_text[c] # PyNone) = (replies = 1)
                  /\ response_text[c] # PyNone =>
                        LET text == ReplyOf(c)
                        IN  /\ response_text[c] = Str(text)
                            /\ \A i \in 1..Len(response[c]) :
                                  response[c][i].output[1].content[1].text = text
                            /\ \A i \in 1..Len(yielded[c]) :
                                  yielded[c][i].response.output[1].content[1].text = text
                            /\ Len(response[c]) + Len(yielded[c]) = 1

C5_Witness ==
    \E c, d \in Calls :
        /\ c # d
        /\ args[c].op = "get_response" /\ args[d].op = "stream_response"
        /\ args[c] = [args[d] EXCEPT !.op = "get_response"]
        /\ pc[c] = "done" /\ pc[d] = "exhausted"
        /\ ReplyOf(c) = "Manual reply" /\ ReplyOf(d) = ""
        /\ response[c][1].output[1].content[1].text = "Manual reply"
        /\ yielded[d][1].response.output[1].content[1].text = ""

\* C10: a call suspends only at the await of the provider, so the lines of
\* one call are contiguous in the output, from its header to its trailer,
\* right before its provider invocation, whatever other calls are running;
\* nothing is printed when a call resumes.
C10_TranscriptsContiguous ==
    \A c \in Calls :
        LET at == {i \in 1..Len(log) : log[i].call = c /\ log[i].ev = "print"}
            n == Cardinality(at)
            inv == InvokeAt(c)
        IN  /\ \A i \in at : (i + 1 \in at) \/ (\A k \in at : k <= i)
            /\ inv # 0 =>
                  /\ at = (inv - n)..(inv - 1)
                  /\ n > 0
                  /\ log[inv - n].val = HeaderLine
                  /\ log[inv - 1].val = TrailerLine

\* two calls are suspended at once, and the one that printed last is
\* answered first
C10_Witness ==
    \E c, d \in Calls :
        /\ c # d
        /\ InvokeAt(c) # 0 /\ InvokeAt(d) # 0 /\ InvokeAt(c) < InvokeAt(d)
        /\ \E i, j \in 1..Len(log) :
              /\ InvokeAt(d) < i /\ i < j
              /\ log[i] = ReplyEv(d, log[i].val)
              /\ log[j] = ReplyEv(c, log[j].val)

\* the texts that can follow a name on a display line of the inputs
Suffixes ==
    {""} \cup UNION {{": " \o PyStr(o.attrs[a]) :
                         a \in DOMAIN o.attrs \cap {"description", "tool_description"}} :
                     o \in ToolObjects \cup HandoffObjects}

\* what a tool is called: its name attribute, else its class name
NameOrClass(tool) == IF HasAttr(tool, "name") THEN tool.attrs["name"][1] ELSE tool.cls

\* a tool has no description text under either field name
NoDescription(tool) ==
    \A a \in {"description", "tool_description"} :
        HasAttr(tool, a) => tool.attrs[a] \in {PyNone, Str("")}

C8_Original ==
    \A c \in Calls :
        Started(c) =>
            LET P == PrintsOf(c)
                si == args[c].system_instructions
            IN  /\ (P[2] = SysNoneLine) = (si = PyNone)
                /\ si # PyNone => P[3] = si[1]

\* C8 amended: the system-instructions section is "System instructions:"
\* and then the literal instruction text when the instructions are a
\* non-empty string, and is the single line "System instructions: <none>"
\* when they are absent or the empty string.
C8_SystemSection ==
    \A c \in Calls :
        Started(c) =>
            LET P == PrintsOf(c)
                si == args[c].system_instructions
            IN  IF si \in {PyNone, Str("")}
                THEN /\ P[2] = SysNoneLine
                     /\ P[3] = ItemsLine
                     /\ Positions(P, SysHeaderLine) = {}
                ELSE /\ P[2] = SysHeaderLine
                     /\ P[3] = si[1]
                     /\ P[4] = ItemsLine
                     /\ Positions(P, SysNoneLine) = {}

\* calls with empty instructions print the <none> line
C8_Witness ==
    \E c \in Calls :
        /\ Started(c)
        /\ args[c].system_instructions = Str("")
        /\ PrintsOf(c)[2] = SysNoneLine

\* the description the claim expects: the first field that exists
FirstExisting(tool) ==
    IF HasAttr(tool, "description") THEN tool.attrs["description"]
    ELSE IF HasAttr(tool, "tool_description") THEN tool.attrs["tool_description"]
    ELSE PyNone

\* the description the code uses: the first field that holds text
FirstNonEmpty(tool) ==
    IF HasAttr(tool, "description") /\ tool.attrs["description"] \notin {PyNone, Str("")}
    THEN tool.attrs["description"]
    ELSE IF HasAttr(tool, "tool_description")
              /\ tool.attrs["tool_description"] \notin {PyNone, Str("")}
    THEN tool.attrs["tool_description"]
    ELSE PyNone

\* the display line of a tool, given its description
LineWith(tool, description) ==
    IF description \in {PyNone, Str("")}
    THEN "  - " \o NameOrClass(tool)
    ELSE "  - " \o NameOrClass(tool) \o ": " \o description[1]

\* C9 as claimed: a tool's line is "  - <name>: <description>" when it has a
\* description and "  - <name>" when it has none, the description being
\* that of the first field that exists (description, then
\* tool_description): the second is consulted only when the first is absent.
C9_Original ==
    \A c \in Calls :
        (Started(c) /\ args[c].tools # <<>>) =>
            LET P == PrintsOf(c)
                t0 == Pos(P, ToolsLine)
            IN  \A i \in 1..Len(args[c].tools) :
                    P[t0 + i] = LineWith(args[c].tools[i], FirstExisting(args[c].tools[i]))

\* C9 amended: a tool's line is "  - <name>: <description>" when it has a
\* description and "  - <name>" when it has none, the description being
\* that of the first field that holds a non-empty text (description, then
\* tool_description): the second is consulted when the first is absent,
\* None or empty.
C9_ToolLines ==
    \A c \in Calls :
        (Started(c) /\ args[c].tools # <<>>) =>
            LET P == PrintsOf(c)
                t0 == Pos(P, ToolsLine)
            IN  \A i \in 1..Len(args[c].tools) :
                    P[t0 + i] = LineWith(args[c].tools[i], FirstNonEmpty(args[c].tools[i]))

\* a transcript shows a tool with an empty description under its
\* tool_description, and one with both fields under its description
C9_Witness ==
    \E c \in Calls :
        /\ Started(c)
        /\ Pos(PrintsOf(c), "  - legacy: Alt text.") # 0
        /\ Pos(PrintsOf(c), "  - dual: First.") # 0

====
